---- MODULE Spec2Model ----
(***************************************************************************)
(* Model of flutter/setup_flutter.py: the install_flutter pipeline          *)
(* (platform check, metadata fetch, local version probe, decision gate,     *)
(* download, removal of the old installation, extraction, archive cleanup,  *)
(* PATH advice) and the two progress indicators.                            *)
(***************************************************************************)
EXTENDS Integers, Sequences, FiniteSets, TLC

\* ------------------------------------------------------------------ bounds
MaxOld == 2        \* files of a prior installation
MaxEntries == 2    \* entries of the downloaded archive (pipeline run)
MaxReleases == 2   \* length of the metadata's releases list
MaxBlocks == 5     \* blocks read by one download (progress run)
MaxSize == 4       \* declared total size of a download (progress run)
MaxBlockSize == 2  \* block size of a download (progress run)
MaxFiles == 203    \* entries of an archive (progress run)

\* ------------------------------------------------------- values and inputs
Missing == "Missing"          \* a JSON field that is not there
NoVersion == <<>>             \* Python None where a version string may stand
MissingVersion == <<0>>       \* a release object without a version field
NoUrl == <<>>
NoData == [kind |-> "none"]

\* platform.system() results the model draws from
OSNames == {"Windows", "Darwin", "Linux", "FreeBSD", "Java"}

PATHS ==
  [os \in {"Windows", "Darwin", "Linux"} |->
     IF os = "Windows" THEN "C:\\flutter" ELSE "~/development/flutter"]

METADATA_URLS ==
  [os \in {"Windows", "Darwin", "Linux"} |->
     CASE os = "Windows" -> "releases_windows.json"
       [] os = "Darwin" -> "releases_macos.json"
       [] os = "Linux" -> "releases_linux.json"]

BASE_URL == "https://storage.googleapis.com/flutter_infra_release/releases"

\* version strings, kept as their dot-separated numeric parts
V1 == <<3, 30, 0>>
V2 == <<3, 38, 5>>
Versions == {V1, V2}
Hashes == {"abc123", "def456"}

\* one object of the JSON releases list; a field may be absent
Releases ==
  [hash : Hashes \cup {Missing},
   version : Versions \cup {MissingVersion},
   archive : {"stable/sdk.tar.xz", Missing}]

RECURSIVE SeqsUpTo(_, _)
SeqsUpTo(S, n) ==
  IF n = 0 THEN {<<>>}
  ELSE LET shorter == SeqsUpTo(S, n - 1)
       IN shorter \cup {Append(s, x) : s \in {t \in shorter : Len(t) = n - 1}, x \in S}

\* what urlopen + json.loads can produce
Responses ==
  {[kind |-> "neterr"], [kind |-> "badjson"]}
  \cup {[kind |-> "json", stable |-> st, releases |-> rs] :
          st \in Hashes \cup {Missing}, rs \in SeqsUpTo(Releases, MaxReleases)}

\* what running "flutter --version" can produce
ProbeOutcomes ==
  {[kind |-> "FileNotFoundError"], [kind |-> "CalledProcessError"],
   [kind |-> "Exception"]}
  \cup {[kind |-> "stdout", word |-> w, parts |-> p] :
          w \in {"Flutter", "Dart"},
          p \in {<<3, 30, 0>>, <<3, 38, 5>>, <<3, 38, 5, 1>>, <<3, 38>>, <<>>}}

Root == <<"dir", 0>>
OldFiles == {<<"old", k>> : k \in 1..MaxOld}
NewFile(k) == <<"new", k>>
Paths == OldFiles \cup {Root}

VARIABLES
  pc,                \* position in install_flutter
  current_os,        \* get_os()
  data,              \* parsed metadata response, while it is in use
  latest_version, download_url, installed_version,
  dir_exists,        \* os.path.exists(install_path)
  dir_files,         \* files below install_path
  readonly,          \* paths for which os.access(path, W_OK) is false
  parent_exists,     \* os.path.exists(parent_dir)
  archive,           \* the downloaded file in the working directory
  fs0,               \* the filesystem at the start of the run
  total_files, i,    \* the extraction loop
  retries,           \* per path, deletions retried by on_rm_error
  calls,             \* external calls made so far, in order
  errors,            \* print_error messages
  result,            \* how the run ended
  advice,            \* what the PATH advisor printed
  drawn,             \* percentages drawn by the current progress bar, in tenths
  phase, total_size, block_size, block_num   \* progress run

vars ==
  <<pc, current_os, data, latest_version, download_url, installed_version,
    dir_exists, dir_files, readonly, parent_exists, archive, fs0,
    total_files, i, retries, calls, errors, result, advice, drawn,
    phase, total_size, block_size, block_num>>

fsVars == <<dir_exists, dir_files, readonly, parent_exists, archive>>
metaVars == <<data, latest_version, download_url>>
loopVars == <<total_files, i>>
hookVars == <<phase, total_size, block_size, block_num>>

FS ==
  [dir_exists |-> dir_exists, dir_files |-> dir_files, readonly |-> readonly,
   parent_exists |-> parent_exists, archive |-> archive]

\* ---------------------------------------------------------- pure functions

\* draw_progress_bar: the percentage it writes, in tenths of a percent
\* ("{0:.1f}".format(100 * (current / float(total)))); raises on total = 0
\* Exact ties are rounded to even; the float arithmetic of the code can land
\* one tenth away at a tie, which changes neither the order nor 100.0.
Percent(current, total) ==
  LET c == IF total < 0 THEN 0 - current ELSE current
      t == IF total < 0 THEN 0 - total ELSE total
      q == (1000 * c) \div t
      r == (1000 * c) % t
  IN IF 2 * r < t THEN q
     ELSE IF 2 * r > t THEN q + 1
     ELSE IF q % 2 = 0 THEN q ELSE q + 1

draw_progress_bar(current, total) ==
  IF total = 0
    THEN [raised |-> TRUE, out |-> <<>>]
    ELSE [raised |-> FALSE, out |-> <<Percent(current, total)>>]

download_reporthook(bn, bs, ts) ==
  LET downloaded == bn * bs
  IN IF downloaded < ts
       THEN draw_progress_bar(downloaded, ts)
       ELSE draw_progress_bar(ts, ts)

\* the extraction loops' condition for drawing after entry index k (0-based)
DrawsAt(k, total) == k % 100 = 0 \/ k = total - 1

\* re.search(r"Flutter\s+(\d+\.\d+\.\d+)", stdout): the first three parts
RegexVersion(out) ==
  IF out.word = "Flutter" /\ Len(out.parts) >= 3
    THEN SubSeq(out.parts, 1, 3)
    ELSE NoVersion

get_installed_version(outcome) ==
  IF outcome.kind = "stdout" THEN RegexVersion(outcome) ELSE NoVersion

\* a scan that keeps the last release with the hash, not the first
RECURSIVE NextMatch_last(_, _, _)
NextMatch_last(rs, h, k) ==
  IF k > Len(rs) THEN 0
  ELSE IF rs[k].hash = Missing THEN 0 - 1
  ELSE LET later == NextMatch_last(rs, h, k + 1)
       IN IF later # 0 THEN later
          ELSE IF rs[k].hash = h THEN k ELSE 0

\* next(item for item in releases if item['hash'] == current_hash, None),
\* from position k on: the index found, 0 for None, -1 for a KeyError
RECURSIVE NextMatch(_, _, _)
NextMatch(rs, h, k) ==
  IF k > Len(rs) THEN 0
  ELSE IF rs[k].hash = Missing THEN 0 - 1
  ELSE IF rs[k].hash = h THEN k
  ELSE NextMatch(rs, h, k + 1)

\* the body of the metadata try block, after the response arrived
ResolveRelease(resp) ==
  LET fail == [ok |-> FALSE, version |-> NoVersion, url |-> NoUrl]
  IN IF resp.kind # "json" THEN fail
     ELSE IF resp.stable = Missing THEN fail
     ELSE LET k == NextMatch(resp.releases, resp.stable, 1)
          IN IF k < 1 THEN fail
             ELSE IF resp.releases[k].archive = Missing THEN fail
             ELSE IF resp.releases[k].version = MissingVersion THEN fail
             ELSE [ok |-> TRUE,
                   version |-> resp.releases[k].version,
                   url |-> <<BASE_URL, resp.releases[k].archive>>]

\* a handler without the os.access test: chmod and retry for every path
on_rm_error_always(path, ro, chmod_ok, retry_ok) ==
  IF ~chmod_ok
    THEN [raised |-> TRUE, ro |-> ro, retried |-> 0, removed |-> FALSE]
    ELSE [raised |-> ~retry_ok, ro |-> ro \ {path}, retried |-> 1,
          removed |-> retry_ok]

\* on_rm_error(func, path, exc_info) with the outcomes of chmod and of the
\* retried func(path)
on_rm_error(path, ro, chmod_ok, retry_ok) ==
  IF path \in ro
    THEN IF ~chmod_ok
           THEN [raised |-> TRUE, ro |-> ro, retried |-> 0, removed |-> FALSE]
           ELSE [raised |-> ~retry_ok, ro |-> ro \ {path}, retried |-> 1,
                 removed |-> retry_ok]
    ELSE [raised |-> TRUE, ro |-> ro, retried |-> 0, removed |-> FALSE]

\* a platform check that knows one OS too many
UnsupportedOS_extra(os) == os \notin (DOMAIN PATHS \cup {"FreeBSD"})

\* line 134: current_os not in PATHS
UnsupportedOS(os) == os \notin DOMAIN PATHS

\* the comparison of line 172 inverted
UpToDate_inverted(installed, latest) == installed # NoVersion /\ installed # latest

\* a gate that takes "no local version" for "nothing to do"
UpToDate_absent(installed, latest) == installed = NoVersion \/ installed = latest

\* lines 168 and 172: a local version was found and equals the latest one
UpToDate(installed, latest) == installed # NoVersion /\ installed = latest

\* the except block of line 192 without its return
AfterDownload_noreturn(failed) == "clean"

\* lines 189-194: where the run goes after urlretrieve
AfterDownload(failed) == IF failed THEN "done" ELSE "clean"

\* extraction over whatever is there, without the removal
AfterDownloadOk_keep(exists) == "mkparent"

\* line 200: is there an old installation to remove first?
AfterDownloadOk(exists) == IF exists THEN "rmtree" ELSE "mkparent"

\* the extension of filename (line 185)
Extension(os) == IF os = "Windows" THEN ".zip" ELSE ".tar.xz"

\* the reporthook calls of one urlretrieve that reads `blocks` blocks: calls
\* bn..blocks in order, stopping at the first that raises
RECURSIVE HookRun(_, _, _, _)
HookRun(bn, blocks, bs, ts) ==
  IF bn > blocks THEN [raised |-> FALSE, out |-> <<>>]
  ELSE LET h == download_reporthook(bn, bs, ts)
       IN IF h.raised THEN h
          ELSE LET rest == HookRun(bn + 1, blocks, bs, ts)
               IN [raised |-> rest.raised, out |-> h.out \o rest.out]

\* what the extraction loops draw after extracting entry index k (0-based)
ExtractDraw(k, total, sofar) ==
  IF DrawsAt(k, total)
    THEN sofar \o draw_progress_bar(k + 1, total).out
    ELSE sofar

\* ------------------------------------------------------------ the pipeline

Init ==
  /\ pc = "start"
  /\ current_os \in OSNames
  /\ data = NoData
  /\ latest_version = NoVersion
  /\ download_url = NoUrl
  /\ installed_version = NoVersion
  /\ dir_exists \in BOOLEAN
  /\ dir_files \in (IF dir_exists THEN SUBSET OldFiles ELSE {{}})
  /\ readonly \in (IF dir_exists THEN SUBSET (dir_files \cup {Root}) ELSE {{}})
  /\ parent_exists \in (IF dir_exists THEN {TRUE} ELSE BOOLEAN)
  /\ archive = "absent"
  /\ fs0 = FS
  /\ total_files = 0
  /\ i = 0
  /\ retries = [p \in Paths |-> 0]
  /\ calls = <<>>
  /\ errors = {}
  /\ result = "running"
  /\ advice = "none"
  /\ drawn = <<>>
  /\ phase = "pipeline"
  /\ total_size = 0
  /\ block_size = 0
  /\ block_num = 0

\* lines 128-139: platform check
CheckOS ==
  /\ pc = "start"
  /\ IF UnsupportedOS(current_os)
       THEN /\ errors' = errors \cup {"Unsupported OS"}
            /\ result' = "unsupported"
            /\ pc' = "done"
       ELSE /\ pc' = "fetch"
            /\ UNCHANGED <<errors, result>>
  /\ UNCHANGED <<current_os, metaVars, installed_version, fsVars, fs0, loopVars,
                 retries, calls, advice, drawn, hookVars>>

\* lines 141-163: fetch the metadata and resolve the stable release
FetchMetadata ==
  /\ pc = "fetch"
  /\ \E resp \in Responses :
       LET r == ResolveRelease(resp)
       IN /\ calls' = Append(calls, "urlopen")
          /\ data' = resp
          /\ IF r.ok
               THEN /\ latest_version' = r.version
                    /\ download_url' = r.url
                    /\ pc' = "probe"
                    /\ UNCHANGED <<errors, result>>
               ELSE /\ errors' = errors \cup {"Failed to fetch metadata"}
                    /\ result' = "metadata_failed"
                    /\ pc' = "done"
                    /\ UNCHANGED <<latest_version, download_url>>
  /\ UNCHANGED <<current_os, installed_version, fsVars, fs0, loopVars, retries,
                 advice, drawn, hookVars>>

\* line 166: the local version probe
Probe ==
  /\ pc = "probe"
  /\ \E outcome \in ProbeOutcomes :
       installed_version' = get_installed_version(outcome)
  /\ calls' = Append(calls, "flutter --version")
  /\ data' = NoData
  /\ pc' = "gate"
  /\ UNCHANGED <<current_os, latest_version, download_url, fsVars, fs0, loopVars,
                 retries, errors, result, advice, drawn, hookVars>>

\* lines 168-182: the decision gate
Gate ==
  /\ pc = "gate"
  /\ IF UpToDate(installed_version, latest_version)
       THEN /\ result' = "up_to_date"
            /\ pc' = "done"
       ELSE /\ pc' = "download"
            /\ UNCHANGED result
  /\ UNCHANGED <<current_os, metaVars, installed_version, fsVars, fs0, loopVars,
                 retries, calls, errors, advice, drawn, hookVars>>

\* lines 184-194: urlretrieve with download_reporthook.  net: "refused" fails
\* before the file is opened, "broken" after; ts is the declared size
\* (-1 unknown) and the body arrives in blocks of one unit.
Download ==
  /\ pc = "download"
  /\ \E net \in {"ok", "refused", "broken"}, ts \in (0 - 1)..1 :
       LET hooks == HookRun(0, IF ts < 0 THEN 1 ELSE ts, 1, ts)
           failed == net # "ok" \/ hooks.raised
       IN /\ archive' = IF net = "refused" THEN archive
                        ELSE IF failed THEN "partial" ELSE "complete"
          /\ drawn' = IF net = "ok" THEN hooks.out ELSE <<>>
          /\ pc' = AfterDownload(failed)
          /\ IF failed
               THEN /\ errors' = errors \cup {"Download failed"}
                    /\ result' = "download_failed"
               ELSE UNCHANGED <<errors, result>>
  /\ calls' = Append(calls, "urlretrieve")
  /\ UNCHANGED <<current_os, metaVars, installed_version, dir_exists, dir_files,
                 readonly, parent_exists, fs0, loopVars, retries, advice,
                 hookVars>>

\* line 200: is there an old installation?
CleanOld ==
  /\ pc = "clean"
  /\ pc' = AfterDownloadOk(dir_exists)
  /\ UNCHANGED <<current_os, metaVars, installed_version, fsVars, fs0, loopVars,
                 retries, calls, errors, result, advice, drawn, hookVars>>

\* lines 202-208: one deletion of shutil.rmtree(install_path, onerror=on_rm_error):
\* a file while any is left, then the directory itself
RmtreeStep ==
  /\ pc = "rmtree"
  /\ \E p \in (IF dir_files # {} THEN dir_files ELSE {Root}),
        first_ok \in BOOLEAN, chmod_ok \in BOOLEAN, retry_ok \in BOOLEAN :
       LET h == IF first_ok
                  THEN [raised |-> FALSE, ro |-> readonly, retried |-> 0,
                        removed |-> TRUE]
                  ELSE on_rm_error(p, readonly, chmod_ok, retry_ok)
       IN /\ readonly' = IF h.removed THEN h.ro \ {p} ELSE h.ro
          /\ retries' = [retries EXCEPT ![p] = @ + h.retried]
          /\ calls' = Append(calls, "rmtree")
          /\ IF h.raised
               THEN /\ errors' = errors \cup {"Could not remove old directory"}
                    /\ result' = "remove_failed"
                    /\ pc' = "done"
                    /\ UNCHANGED <<dir_exists, dir_files>>
               ELSE /\ dir_files' = dir_files \ {p}
                    /\ dir_exists' = (p # Root)
                    /\ pc' = IF p = Root THEN "mkparent" ELSE "rmtree"
                    /\ UNCHANGED <<errors, result>>
  /\ UNCHANGED <<current_os, metaVars, installed_version, parent_exists, archive,
                 fs0, loopVars, advice, drawn, hookVars>>

\* lines 210-212: os.makedirs(parent_dir), outside any try block
MakeParent ==
  /\ pc = "mkparent"
  /\ IF parent_exists
       THEN /\ pc' = "open"
            /\ UNCHANGED <<parent_exists, calls, result>>
       ELSE \E ok \in BOOLEAN :
              /\ calls' = Append(calls, "makedirs")
              /\ parent_exists' = ok
              /\ IF ok
                   THEN pc' = "open" /\ UNCHANGED result
                   ELSE pc' = "done" /\ result' = "raised"
  /\ UNCHANGED <<current_os, metaVars, installed_version, dir_exists, dir_files,
                 readonly, archive, fs0, loopVars, retries, errors, advice, drawn,
                 hookVars>>

\* lines 216-219 / 226-228: open the archive and list its entries
OpenArchive ==
  /\ pc = "open"
  /\ \E ok \in BOOLEAN, n \in 0..MaxEntries :
       /\ calls' = Append(calls, "open" \o Extension(current_os))
       /\ IF ok
            THEN /\ total_files' = n
                 /\ i' = 0
                 /\ pc' = "extract"
                 /\ UNCHANGED <<errors, result>>
            ELSE /\ errors' = errors \cup {"Extraction failed"}
                 /\ result' = "extract_failed"
                 /\ pc' = "cleanup"
                 /\ UNCHANGED loopVars
  /\ drawn' = <<>>
  /\ UNCHANGED <<current_os, metaVars, installed_version, fsVars, fs0, retries,
                 advice, hookVars>>

\* lines 220-224 / 229-233: one iteration of the extraction loop
ExtractStep ==
  /\ pc = "extract"
  /\ i < total_files
  /\ calls' = Append(calls, "extract")
  /\ \E ok \in BOOLEAN :
       IF ok
         THEN /\ dir_exists' = TRUE
              /\ dir_files' = dir_files \cup {NewFile(i + 1)}
              /\ drawn' = ExtractDraw(i, total_files, drawn)
              /\ i' = i + 1
              /\ UNCHANGED <<pc, errors, result>>
         ELSE /\ errors' = errors \cup {"Extraction failed"}
              /\ result' = "extract_failed"
              /\ pc' = "cleanup"
              /\ UNCHANGED <<dir_exists, dir_files, drawn, i>>
  /\ UNCHANGED <<current_os, metaVars, installed_version, readonly, parent_exists,
                 archive, fs0, total_files, retries, advice, hookVars>>

\* line 235: the loop is over
ExtractComplete ==
  /\ pc = "extract"
  /\ i = total_files
  /\ pc' = "cleanup"
  /\ UNCHANGED <<current_os, metaVars, installed_version, fsVars, fs0, loopVars,
                 retries, calls, errors, result, advice, drawn, hookVars>>

\* lines 239-244: the finally block of the extraction
Cleanup ==
  /\ pc = "cleanup"
  /\ IF archive # "absent"
       THEN \E ok \in BOOLEAN :
              /\ archive' = IF ok THEN "absent" ELSE archive
              /\ calls' = Append(calls, IF ok THEN "os.remove" ELSE "os.remove failed")
       ELSE UNCHANGED <<archive, calls>>
  /\ pc' = IF result = "extract_failed" THEN "done" ELSE "advise"
  /\ UNCHANGED <<current_os, metaVars, installed_version, dir_exists, dir_files,
                 readonly, parent_exists, fs0, loopVars, retries, errors, result,
                 advice, drawn, hookVars>>

\* lines 246-268: PATH advice
Advise ==
  /\ pc = "advise"
  /\ \E in_path \in BOOLEAN :
       advice' = IF current_os = "Windows"
                   THEN IF in_path THEN "already in PATH" ELSE "PowerShell command"
                   ELSE "export line"
  /\ result' = "ready"
  /\ pc' = "done"
  /\ UNCHANGED <<current_os, metaVars, installed_version, fsVars, fs0, loopVars,
                 retries, calls, errors, drawn, hookVars>>

Next ==
  \/ CheckOS
  \/ FetchMetadata
  \/ Probe
  \/ Gate
  \/ Download
  \/ CleanOld
  \/ RmtreeStep
  \/ MakeParent
  \/ OpenArchive
  \/ ExtractStep
  \/ ExtractComplete
  \/ Cleanup
  \/ Advise

Spec == Init /\ [][Next]_vars

\* ------------------------------------------------------ the progress phases
\* One download (urlretrieve calling download_reporthook before the first
\* read and after every block) or one extraction loop, on their own, with
\* realistic sizes.

pipelineVars ==
  <<current_os, data, latest_version, download_url, installed_version,
    dir_exists, dir_files, readonly, parent_exists, archive, fs0, retries,
    calls, errors, result, advice>>

InitProgress ==
  /\ current_os = "Linux"
  /\ data = NoData
  /\ latest_version = V2
  /\ download_url = <<BASE_URL, "stable/sdk.tar.xz">>
  /\ installed_version = NoVersion
  /\ dir_exists = FALSE
  /\ dir_files = {}
  /\ readonly = {}
  /\ parent_exists = TRUE
  /\ archive = "absent"
  /\ fs0 = FS
  /\ retries = [p \in Paths |-> 0]
  /\ calls = <<>>
  /\ errors = {}
  /\ result = "running"
  /\ advice = "none"
  /\ drawn = <<>>
  /\ i = 0
  /\ block_num = 0
  /\ phase \in {"download", "extract"}
  /\ IF phase = "download"
       THEN /\ pc = "hook"
            /\ total_size \in (0 - 1)..MaxSize
            /\ block_size \in 1..MaxBlockSize
            /\ total_files = 0
       ELSE /\ pc = "loop"
            /\ total_files \in 0..MaxFiles
            /\ total_size = 0
            /\ block_size = 0

\* line 190: urlretrieve calls reporthook(blocknum, bs, size)
HookCall ==
  /\ phase = "download"
  /\ pc = "hook"
  /\ LET h == download_reporthook(block_num, block_size, total_size)
     IN /\ drawn' = drawn \o h.out
        /\ pc' = IF h.raised THEN "hook_raised" ELSE "read"
  /\ UNCHANGED <<pipelineVars, loopVars, hookVars>>

\* line 190: urlretrieve reads one more block
ReadBlock ==
  /\ phase = "download"
  /\ pc = "read"
  /\ block_num < MaxBlocks
  /\ block_num' = block_num + 1
  /\ pc' = "hook"
  /\ UNCHANGED <<pipelineVars, loopVars, drawn, phase, total_size, block_size>>

\* line 190: end of the body; with a declared size, fewer bytes than
\* declared is ContentTooShortError
ReadEof ==
  /\ phase = "download"
  /\ pc = "read"
  /\ pc' = IF total_size < 0 \/ block_num * block_size >= total_size
             THEN "complete" ELSE "too_short"
  /\ UNCHANGED <<pipelineVars, loopVars, drawn, hookVars>>

\* lines 220-224 / 229-233: one iteration, the entry extracted without error
LoopStep ==
  /\ phase = "extract"
  /\ pc = "loop"
  /\ i < total_files
  /\ drawn' = ExtractDraw(i, total_files, drawn)
  /\ i' = i + 1
  /\ UNCHANGED <<pipelineVars, pc, total_files, hookVars>>

\* line 235: the loop is over
LoopEnd ==
  /\ phase = "extract"
  /\ pc = "loop"
  /\ i = total_files
  /\ pc' = "complete"
  /\ UNCHANGED <<pipelineVars, loopVars, drawn, hookVars>>

NextProgress ==
  \/ HookCall
  \/ ReadBlock
  \/ ReadEof
  \/ LoopStep
  \/ LoopEnd

SpecProgress == InitProgress /\ [][NextProgress]_vars

\* ------------------------------------------------------------------ claims

Range(s) == {s[k] : k \in 1..Len(s)}
Count(s, x) == Cardinality({k \in 1..Len(s) : s[k] = x})
NewFiles == {NewFile(k) : k \in 1..(MaxEntries + 1)}
Probed == "flutter --version" \in Range(calls)
OpenCalls == {"open.zip", "open.tar.xz"}
Mutating == {"urlretrieve", "rmtree", "makedirs", "extract", "os.remove"} \cup OpenCalls
NonDecreasing(s) == \A k \in 1..(Len(s) - 1) : s[k] <= s[k + 1]

\* C1: when the local version probe returned a version equal to the latest
\* stable version, the run makes no download, deletion, directory creation or
\* extraction, the filesystem is what it was at the start, and the gate is
\* the last step of the run.
C1_UpToDateIsNoOp ==
  (Probed /\ installed_version # NoVersion /\ installed_version = latest_version)
    => /\ pc \in {"gate", "done"}
       /\ pc = "done" => result = "up_to_date"
       /\ FS = fs0
       /\ Range(calls) \cap Mutating = {}

\* C1 witness: a run over an existing installation ended at the gate.
C1_Witness ==
  /\ pc = "done"
  /\ result = "up_to_date"
  /\ installed_version = latest_version
  /\ dir_exists
  /\ dir_files # {}

\* C2: a failed download ends the run with the installation directory, its
\* files and their attributes and the parent directory untouched and nothing
\* extracted; and the old directory is never touched by rmtree unless
\* urlretrieve returned without error.
C2_DownloadFailureIsHarmless ==
  /\ result = "download_failed"
       => /\ pc = "done"
          /\ dir_exists = fs0.dir_exists
          /\ dir_files = fs0.dir_files
          /\ readonly = fs0.readonly
          /\ parent_exists = fs0.parent_exists
          /\ Range(calls) \cap (Mutating \ {"urlretrieve"}) = {}
  /\ "rmtree" \in Range(calls)
       => /\ "urlretrieve" \in Range(calls)
          /\ result # "download_failed"
          /\ (pc = "rmtree" \/ result = "remove_failed") => archive = "complete"

\* C2 witness: the download failed over an existing installation.
C2_Witness ==
  /\ result = "download_failed"
  /\ pc = "done"
  /\ fs0.dir_files # {}

\* C3 (as claimed): at the end of every run whose download created the
\* archive and that returned normally, the archive is gone from the working
\* directory unless os.remove itself failed.
C3_ArchiveAlwaysDeleted ==
  (/\ pc = "done"
   /\ "urlretrieve" \in Range(calls)
   /\ result \notin {"download_failed", "raised"}
   /\ "os.remove failed" \notin Range(calls))
    => archive = "absent"

\* C4: the installation directory never holds files of the prior
\* installation together with extracted ones, and after a run that reached
\* the PATH advice it holds exactly the archive's entries.
C4_ReplacedNeverMerged ==
  /\ ~(dir_files \cap OldFiles # {} /\ dir_files \cap NewFiles # {})
  /\ result = "ready"
       => /\ dir_files = {NewFile(k) : k \in 1..total_files}
          /\ dir_files \cap fs0.dir_files = {}

\* C4 witness: a run replaced an installation that had files by an archive
\* that has entries.
C4_Witness ==
  /\ result = "ready"
  /\ fs0.dir_files # {}
  /\ total_files > 0
  /\ dir_files # {}

\* C5: on an OS outside PATHS the run reports the error and ends at once:
\* no external call at all, the filesystem as it was.
C5_UnsupportedOSHalts ==
  (current_os \notin {"Windows", "Darwin", "Linux"} /\ pc # "start")
    => /\ pc = "done"
       /\ result = "unsupported"
       /\ errors = {"Unsupported OS"}
       /\ calls = <<>>
       /\ FS = fs0

\* C5 witness: a run on an unsupported OS has ended.
C5_Witness ==
  /\ current_os = "FreeBSD"
  /\ pc = "done"
  /\ result = "unsupported"

\* C6 (as claimed): every reporthook call draws a percentage, the drawn
\* percentages never decrease, and when a phase that had anything to draw
\* completes the last one is 100.0.
C6_ProgressReaches100 ==
  /\ pc # "hook_raised"
  /\ NonDecreasing(drawn)
  /\ (pc = "complete" /\ (phase = "download" \/ total_files > 0))
       => (drawn # <<>> /\ drawn[Len(drawn)] = 1000)

\* C7 (as claimed): a run whose probe found no version, or another one than
\* the latest, has downloaded and extracted by the time it ends.
C7_AlwaysDownloadsAndExtracts ==
  (/\ pc = "done"
   /\ Probed
   /\ (installed_version = NoVersion \/ installed_version # latest_version))
    => /\ "urlretrieve" \in Range(calls)
       /\ Range(calls) \cap OpenCalls # {}

\* C7 (amended): such a run is never ended by the gate: it always attempts
\* the download, and it goes on to open the archive for extraction unless
\* the download, the removal of the old directory or the creation of the
\* parent directory failed.
C7_ProceedsUnlessStepFails ==
  (Probed /\ (installed_version = NoVersion \/ installed_version # latest_version))
    => /\ result # "up_to_date"
       /\ pc \notin {"gate", "download"} => "urlretrieve" \in Range(calls)
       /\ pc = "done"
            => \/ Range(calls) \cap OpenCalls # {}
               \/ result \in {"download_failed", "remove_failed", "raised"}

\* C7 witness: a probe that found no version was followed by a complete run.
C7_Witness ==
  /\ pc = "done"
  /\ result = "ready"
  /\ installed_version = NoVersion
  /\ "extract" \in Range(calls)

\* C8: after a successful resolve the version and archive path are those of
\* the first release whose hash is the stable hash; a failed fetch, a
\* malformed document, a missing field or no matching release ends the run
\* with the error reported, after the single fetch, with no probe, no
\* download and the filesystem untouched.
C8_ResolverContract ==
  /\ Count(calls, "urlopen") <= 1
  /\ pc = "probe"
       => /\ data.kind = "json"
          /\ \E k \in 1..Len(data.releases) :
               /\ data.releases[k].hash = data.stable
               /\ \A j \in 1..(k - 1) : data.releases[j].hash # data.stable
               /\ latest_version = data.releases[k].version
               /\ latest_version \in Versions
               /\ download_url = <<BASE_URL, data.releases[k].archive>>
               /\ data.releases[k].archive # Missing
  /\ (pc # "fetch" /\ data # NoData /\
      (\/ data.kind # "json"
       \/ data.stable = Missing
       \/ \A k \in 1..Len(data.releases) : data.releases[k].hash # data.stable))
       => result = "metadata_failed"
  /\ result = "metadata_failed"
       => /\ pc = "done"
          /\ calls = <<"urlopen">>
          /\ errors = {"Failed to fetch metadata"}
          /\ FS = fs0

\* C8 witness: the stable hash matched the second of two releases, and the
\* run went on with that release.
C8_Witness ==
  /\ pc = "probe"
  /\ Len(data.releases) = 2
  /\ data.releases[1].hash # data.stable
  /\ data.releases[2].hash = data.stable
  /\ latest_version = data.releases[2].version

\* C9 (as claimed): no exception leaves install_flutter, and every run that
\* ended on a failed step printed an error.
C9_NoExceptionEscapes ==
  /\ result # "raised"
  /\ (pc = "done" /\ result \notin {"ready", "up_to_date"}) => errors # {}

\* C10: on_rm_error retries a failed deletion only for a path that is not
\* writable, once, after making it writable; when the retry succeeds rmtree
\* goes on (to the next path, or to the extraction when the directory itself
\* is gone, with no directory to create); any other deletion error ends the
\* run with the error reported, nothing created or extracted, and the files
\* not yet deleted still there.
C10_Inv ==
  /\ \A p \in Paths :
       /\ retries[p] <= 1
       /\ retries[p] = 1 => (p \in fs0.readonly /\ p \notin readonly)
  /\ result = "remove_failed"
       => /\ pc = "done"
          /\ errors = {"Could not remove old directory"}
          /\ dir_exists
          /\ dir_files \subseteq fs0.dir_files
          /\ Range(calls) \cap ({"makedirs", "extract"} \cup OpenCalls) = {}
  /\ (pc = "mkparent" /\ fs0.dir_exists) => (parent_exists /\ ~dir_exists)

C10_Step ==
  (pc = "rmtree" /\ retries' # retries /\ <<dir_exists, dir_files>>' # <<dir_exists, dir_files>>)
    => /\ result' = result
       /\ errors' = errors
       /\ pc' = IF dir_exists' THEN "rmtree" ELSE "mkparent"

C10_ReadOnlyRetry == []C10_Inv /\ [][C10_Step]_vars

\* C10 witness: rmtree removed a read-only file on the retry and the run
\* reached the extraction.
C10_Witness ==
  /\ \E p \in OldFiles : retries[p] = 1
  /\ "extract" \in Range(calls)
  /\ result = "ready"

====
